---- MODULE Spec2Model ----
(***************************************************************************)
(* A model of oreb: the rendering context and rectangle painter            *)
(* (src/src/lib.rs) and the rectangle example that drives them             *)
(* (src/examples/rects.rs).                                                *)
(*                                                                         *)
(* Three specifications share one state:                                   *)
(*   Spec      an arbitrary client calling the Context / Painter API;      *)
(*   LoopSpec  the event loop of the example's main();                     *)
(*   EncSpec   the pure function encode_geometry applied to bounded        *)
(*             inputs.                                                     *)
(*                                                                         *)
(* f32 values are modelled as exact rationals <<n, d>> in lowest terms     *)
(* with d > 0; rounding is not modelled.                                   *)
(***************************************************************************)
EXTENDS Integers, Sequences, FiniteSets, TLC

VARIABLES
    config,         \* Context.config: [width, height] (lib.rs:38)
    surface,        \* the configuration last handed to surface.configure
    vertex_count,   \* Painter.vertex_count (lib.rs:178)
    index_count,    \* Painter.index_count (lib.rs:180)
    vertices,       \* Painter.vertices: [len, gen] of the last write that fitted
    indexes,        \* Painter.indexes: [len, gen] of the last write that fitted
    uniforms,       \* contents of Painter.uniforms
    device_error,   \* a validation error was raised by the last call's writes
    call,           \* the last call or event handled: [op, res, a, b]
    trace,          \* the operations that call performed, in order
    pass,           \* the render pass recorded and submitted by the last draw
    control_flow,   \* winit's ControlFlow as left by the event handler
    panicked,       \* the handler reached todo!()
    redraw_requested, \* window.request_redraw() is pending
    started,        \* main() has reached events.run
    phase,          \* of the event loop's iteration: "events" or "redraw"
    finished,       \* events.run has ended the loop
    clock,          \* clock.elapsed(), in ticks
    rects,          \* the input of encode_geometry
    out,            \* the output of encode_geometry: [verts, idxs]
    pc,             \* "input" before encode_geometry has run, "encoded" after
    hist            \* history: what the calls so far were given

vars == <<config, surface, vertex_count, index_count, vertices, indexes,
          uniforms, device_error, call, trace, pass, control_flow, panicked,
          redraw_requested, started, phase, finished, clock, rects, out,
          pc, hist>>

----------------------------------------------------------------------------
(* Bounds of the model.                                                    *)

\* The longest list of rectangles handed to encode_geometry.
MaxRects == 2

\* The largest value of the clock, in ticks.
MaxClock == 3

----------------------------------------------------------------------------
(* Exact rational arithmetic standing for f32.                             *)

RECURSIVE GCD(_, _)
GCD(a, b) == IF b = 0 THEN a ELSE GCD(b, a % b)

Abs(n) == IF n < 0 THEN -n ELSE n

Rat(n, d) ==
    LET g == GCD(Abs(n), Abs(d))
        s == IF d < 0 THEN -1 ELSE 1
    IN  <<(s * n) \div g, (s * d) \div g>>

F(n) == <<n, 1>>

RAdd(p, q) == Rat(p[1] * q[2] + q[1] * p[2], p[2] * q[2])
RNeg(p)    == <<-p[1], p[2]>>
RSub(p, q) == RAdd(p, RNeg(q))
RMul(p, q) == Rat(p[1] * q[1], p[2] * q[2])
RDiv(p, q) == Rat(p[1] * q[2], p[2] * q[1])
RLt(p, q)  == p[1] * q[2] < q[1] * p[2]
RLe(p, q)  == p[1] * q[2] <= q[1] * p[2]

Half == Rat(1, 2)
Zero == F(0)
One  == F(1)

----------------------------------------------------------------------------
(* The geometry encoder of the example (src/examples/rects.rs).            *)

\* struct Rect: center and size are pairs of rationals; the orientation is
\* one of the angles whose sine and cosine are rational.
Angles == {"0", "atan(3/4)"}

\* f32::sin_cos on those angles: <<sin, cos>>.
sin_cos(th) ==
    CASE th = "0"         -> <<Zero, One>>
      [] th = "atan(3/4)" -> <<Rat(3, 5), Rat(4, 5)>>

\* let side = half_h + half_w;
SideBug(half_w, half_h) == half_h
Side(half_w, half_h) == RAdd(half_h, half_w)

\* v.xyz[0] += half_w * 0.5; v.xyz[1] += half_h * 0.5;
RecenterBug(xyz, half_w, half_h) == xyz
Recenter(xyz, half_w, half_h) ==
    <<RAdd(xyz[1], RMul(half_w, Half)), RAdd(xyz[2], RMul(half_h, Half)), xyz[3]>>

\* fn mk_vertices(rect: &Rect) -> [Vertex; 3]
mk_vertices(rect) ==
    LET cx == rect.center[1]
        cy == rect.center[2]
        half_w == RMul(Half, rect.size[1])
        half_h == RMul(Half, rect.size[2])
        side == Side(half_w, half_h)
        s == sin_cos(rect.orientation_radians)[1]
        c == sin_cos(rect.orientation_radians)[2]
        base ==
            << \* top-left
               [xyz |-> <<RNeg(half_w), RNeg(half_h), Zero>>,
                uv  |-> <<RNeg(Half), RNeg(Half)>>],
               \* bottom-right
               [xyz |-> <<RSub(RMul(F(2), half_h), half_w), RNeg(half_h), Zero>>,
                uv  |-> <<RAdd(RNeg(Half), RDiv(side, half_h)), RNeg(Half)>>],
               \* bottom-left
               [xyz |-> <<RNeg(half_w), RSub(RMul(F(2), half_w), half_h), Zero>>,
                uv  |-> <<RNeg(Half), RAdd(RNeg(Half), RDiv(side, half_w))>>] >>
        place(v) ==
            LET m == Recenter(v.xyz, half_w, half_h)
                x == RSub(RMul(m[1], c), RMul(m[2], s))
                y == RAdd(RMul(m[1], s), RMul(m[2], c))
            IN  [xyz |-> <<RAdd(x, cx), RAdd(y, cy), m[3]>>, uv |-> v.uv]
    IN  [i \in 1..3 |-> place(base[i])]

\* .map(|r| mk_vertices(r)).flatten().collect()
RECURSIVE FlatMapVertices(_)
FlatMapVertices(rs) ==
    IF rs = <<>> THEN <<>> ELSE mk_vertices(Head(rs)) \o FlatMapVertices(Tail(rs))

\* (0..3 * rects.len() as u32).collect()
IndexRangeBug(n) == [i \in 1..(3 * n) |-> i]
IndexRange(n) == [i \in 1..(3 * n) |-> i - 1]

\* fn encode_geometry(rects: &[Rect]) -> (Vec<Vertex>, Vec<u32>)
encode_geometry(rs) ==
    [verts |-> FlatMapVertices(rs), idxs |-> IndexRange(Len(rs))]

----------------------------------------------------------------------------
(* Context and Painter (src/src/lib.rs).  Their methods are operators on   *)
(* a record m of the fields they read and write; each appends to m.trace   *)
(* its own name and the calls it makes on the device, queue and surface.   *)

\* contents: &[0; 6000] for the vertex buffer and for the index buffer.
BufferBytes == 6000

\* size_of::<Vertex>(): #[repr(C)] [f32; 3] and [f32; 2].
VertexBytes == 20

\* size_of::<u32>()
IndexBytes == 4

\* The logical inner size of the example's window.
WindowSize == 501

Min(a, b) == IF a < b THEN a ELSE b

\* SurfaceConfiguration as built by Context::with_window: only the two
\* fields resize changes are kept.
InitialConfig(size) ==
    [width |-> Min(size.width, 2), height |-> Min(size.height, 2)]

\* if width > 0 && height > 0
ResizeAppliesBug(width, height) == width > 0 \/ height > 0
ResizeApplies(width, height) == width > 0 /\ height > 0

\* Context::resize
resize(m, width, height) ==
    IF ResizeApplies(width, height)
    THEN LET cfg == [width |-> width, height |-> height]
         IN  [m EXCEPT !.config = cfg, !.surface = cfg,
                       !.trace = @ \o <<"resize", "configure">>]
    ELSE [m EXCEPT !.trace = @ \o <<"resize">>]

\* Context::reset
reset(m) ==
    [m EXCEPT !.surface = m.config, !.trace = @ \o <<"reset", "configure">>]

\* SurfaceError, and Ok for a frame: what Context::get_next_frame returns.
AcquireOutcomes == {"Ok", "Timeout", "Outdated", "Lost", "OutOfMemory"}

\* PainterSettings values.
Settings(edge, fill, line_width) ==
    [edge |-> edge, fill |-> fill, line_width |-> line_width]

\* impl Default for PainterSettings
DefaultSettings ==
    Settings(<<Zero, Zero, Zero, One>>, <<One, One, One, One>>, F(2))

\* The uniform buffer as create_buffer leaves it (zero-initialised, not
\* mapped at creation); Painter::new writes nothing to it.
ZeroSettings ==
    Settings(<<Zero, Zero, Zero, Zero>>, <<Zero, Zero, Zero, Zero>>, Zero)

\* The settings main() uploads before the event loop starts.
MainSettings ==
    Settings(<<Zero, Zero, Zero, One>>,
             <<Rat(2, 10), Rat(2, 10), Rat(2, 10), Rat(5, 10)>>, F(8))

\* A buffer of the painter: the length and the generation of the last
\* write at offset 0 that fitted the buffer (gen -1: never written).
EmptyBuffer == [len |-> 0, gen |-> -1]

\* Queue::write_buffer accepts a write only if it fits the buffer.
Fits(bytes) == bytes <= BufferBytes

WriteBuffer(buf, n, elem_bytes, gen) ==
    IF Fits(elem_bytes * n) THEN [len |-> n, gen |-> gen] ELSE buf

\* Painter::set_geometry; gen identifies the geometry handed in.
set_geometry(m, nv, ni, gen) ==
    [m EXCEPT !.vertex_count = nv,
              !.index_count = ni,
              !.vertices = WriteBuffer(@, nv, VertexBytes, gen),
              !.indexes = WriteBuffer(@, ni, IndexBytes, gen),
              !.device_error = ~(Fits(VertexBytes * nv) /\ Fits(IndexBytes * ni)),
              !.trace = @ \o <<"set_geometry", "write_buffer(vertices)",
                               "write_buffer(indexes)">>]

\* Painter::set_uniforms
set_uniforms(m, settings) ==
    [m EXCEPT !.uniforms = settings,
              !.trace = @ \o <<"set_uniforms", "write_buffer(uniforms)">>]

\* self.vertices.slice(..(size_of::<Vertex>() * self.vertex_count) as u64)
VertexSliceBug(vc) == BufferBytes
VertexSlice(vc) == VertexBytes * vc

\* self.indexes.slice(..(size_of::<u32>() * self.index_count) as u64)
IndexSlice(ic) == IndexBytes * ic

\* The render pass recorded by the last Painter::draw; none so far.
NoPass ==
    [settings |-> ZeroSettings, vslice |-> 0, islice |-> 0,
     first |-> 0, last |-> 0, vgen |-> -1, igen |-> -1]

\* Painter::draw
draw(m) ==
    [m EXCEPT !.pass = [settings |-> m.uniforms,
                        vslice |-> VertexSlice(m.vertex_count),
                        islice |-> IndexSlice(m.index_count),
                        first |-> 0, last |-> m.index_count,
                        vgen |-> m.vertices.gen, igen |-> m.indexes.gen],
              !.trace = @ \o <<"Painter::draw", "begin_render_pass",
                               "set_pipeline", "set_bind_group",
                               "set_vertex_buffer", "set_index_buffer",
                               "draw_indexed", "submit">>]

----------------------------------------------------------------------------
(* The example (src/examples/rects.rs).                                    *)

\* let steps = 100; make_rects returns one rectangle per step.
steps == 100

\* fn draw(context, target, painter, clear_color, time_seconds): generate,
\* encode, stage, draw.  The geometry is identified by the time it was
\* generated for; its lengths are those encode_geometry returns for the
\* steps rectangles of make_rects.
rects_drawBug(m, time_seconds) ==
    LET g == [m EXCEPT !.trace = @ \o <<"make_rects", "encode_geometry">>]
    IN  set_geometry(draw(g), 3 * steps, Len(IndexRange(steps)), time_seconds)
rects_draw(m, time_seconds) ==
    LET g == [m EXCEPT !.trace = @ \o <<"make_rects", "encode_geometry">>]
    IN  draw(set_geometry(g, 3 * steps, Len(IndexRange(steps)), time_seconds))

\* match rc.get_next_frame() { Ok(frame) => .., Err(Lost) => ..,
\* Err(OutOfMemory) => .., Err(_) => todo!() }
AcquireArmBug(outcome) ==
    CASE outcome = "Ok"          -> "frame"
      [] outcome = "OutOfMemory" -> "exit"
      [] OTHER                   -> "reset"
AcquireArm(outcome) ==
    CASE outcome = "Ok"          -> "frame"
      [] outcome = "Lost"        -> "reset"
      [] outcome = "OutOfMemory" -> "exit"
      [] OTHER                   -> "todo"

\* Event::RedrawRequested
on_redraw(m, outcome, time_seconds) ==
    LET a == [m EXCEPT !.trace = @ \o <<"get_next_frame">>]
        arm == AcquireArm(outcome)
    IN  CASE arm = "frame" ->
               LET v == [a EXCEPT !.trace = @ \o <<"create_view">>]
                   d == rects_draw(v, time_seconds)
               IN  [d EXCEPT !.trace = @ \o <<"present">>]
          [] arm = "reset" -> reset(a)
          [] arm = "exit"  ->
               [a EXCEPT !.control_flow = "Exit", !.trace = @ \o <<"error!">>]
          [] arm = "todo"  -> [a EXCEPT !.panicked = TRUE]

\* Event::MainEventsCleared
on_main_events_cleared(m) ==
    [m EXCEPT !.redraw_requested = TRUE, !.trace = @ \o <<"request_redraw">>]

\* WindowEvent::Resized and WindowEvent::ScaleFactorChanged
on_resized(m, width, height) ==
    LET r == resize(m, width, height)
    IN  [r EXCEPT !.redraw_requested = TRUE, !.trace = @ \o <<"request_redraw">>]

\* WindowEvent::CloseRequested, or Escape pressed
on_close(m) == [m EXCEPT !.control_flow = "Exit"]

----------------------------------------------------------------------------
(* The state, as a record and back.                                        *)

\* The state the methods act on, with an empty trace.
Cur ==
    [config |-> config, surface |-> surface,
     vertex_count |-> vertex_count, index_count |-> index_count,
     vertices |-> vertices, indexes |-> indexes, uniforms |-> uniforms,
     device_error |-> device_error, pass |-> pass,
     control_flow |-> control_flow, panicked |-> panicked,
     redraw_requested |-> redraw_requested, trace |-> <<>>]

Becomes(m) ==
    /\ config' = m.config
    /\ surface' = m.surface
    /\ vertex_count' = m.vertex_count
    /\ index_count' = m.index_count
    /\ vertices' = m.vertices
    /\ indexes' = m.indexes
    /\ uniforms' = m.uniforms
    /\ device_error' = m.device_error
    /\ pass' = m.pass
    /\ control_flow' = m.control_flow
    /\ panicked' = m.panicked
    /\ redraw_requested' = m.redraw_requested
    /\ trace' = m.trace

Called(op, res, a, b) == [op |-> op, res |-> res, a |-> a, b |-> b]

\* What the calls so far were given.
NewHist(cfg) ==
    [up_nv |-> 0, up_ni |-> 0,          \* lengths given to the last set_geometry
     good_nv |-> 0, good_ni |-> 0,      \* lengths of the last one that fitted
     has_set |-> FALSE,                 \* set_uniforms has been called
     last_set |-> ZeroSettings,         \* the settings it was last given
     exp_config |-> cfg,                \* dimensions of the last effective resize
     closed |-> FALSE]                  \* CloseRequested has been handled

\* After Context::with_window and Context::make_rect_painter.
Constructed ==
    /\ \E scale \in {1, 2} :
          config = InitialConfig([width |-> WindowSize * scale,
                                  height |-> WindowSize * scale])
    /\ surface = config
    /\ vertex_count = 0
    /\ index_count = 0
    /\ vertices = EmptyBuffer
    /\ indexes = EmptyBuffer
    /\ uniforms = ZeroSettings
    /\ device_error = FALSE
    /\ call = Called("new", "", 0, 0)
    /\ trace = <<>>
    /\ pass = NoPass
    /\ control_flow = "Poll"
    /\ panicked = FALSE
    /\ redraw_requested = FALSE
    /\ started = FALSE
    /\ phase = "events"
    /\ finished = FALSE
    /\ clock = 0
    /\ out = [verts |-> <<>>, idxs |-> <<>>]
    /\ pc = "input"
    /\ hist = NewHist(config)

enc_vars == <<rects, out, pc>>
run_vars == <<started, phase, finished>>

----------------------------------------------------------------------------
(* Spec: a client calling the Context and Painter methods in any order.    *)

\* The lengths of the vertex and index slices a client uploads.
GeometryInputs ==
    {<<0, 0>>, <<3, 3>>, <<300, 300>>, <<300, 1500>>, <<301, 3>>, <<3, 1501>>}

SettingsInputs == {DefaultSettings, MainSettings}

Dims == {0, 1, WindowSize}

Init == Constructed /\ rects = <<>>

SetGeometry ==
    \E g \in GeometryInputs :
        /\ Becomes(set_geometry(Cur, g[1], g[2], 0))
        /\ call' = Called("set_geometry", "()", g[1], g[2])
        /\ hist' = [hist EXCEPT
                      !.up_nv = g[1], !.up_ni = g[2],
                      !.good_nv = IF device_error' THEN @ ELSE g[1],
                      !.good_ni = IF device_error' THEN @ ELSE g[2]]
        /\ UNCHANGED <<run_vars, clock, enc_vars>>

SetUniforms ==
    \E s \in SettingsInputs :
        /\ Becomes(set_uniforms(Cur, s))
        /\ call' = Called("set_uniforms", "()", 0, 0)
        /\ hist' = [hist EXCEPT !.has_set = TRUE, !.last_set = s]
        /\ UNCHANGED <<run_vars, clock, enc_vars>>

Draw ==
    /\ Becomes(draw(Cur))
    /\ call' = Called("draw", "Ok(())", 0, 0)
    /\ UNCHANGED <<hist, run_vars, clock, enc_vars>>

Resize ==
    \E w \in Dims, h \in Dims :
        /\ Becomes(resize(Cur, w, h))
        /\ call' = Called("resize", "()", w, h)
        /\ hist' = [hist EXCEPT
                      !.exp_config = IF w # 0 /\ h # 0
                                     THEN [width |-> w, height |-> h] ELSE @]
        /\ UNCHANGED <<run_vars, clock, enc_vars>>

Reset ==
    /\ Becomes(reset(Cur))
    /\ call' = Called("reset", "()", 0, 0)
    /\ UNCHANGED <<hist, run_vars, clock, enc_vars>>

Next == SetGeometry \/ SetUniforms \/ Draw \/ Resize \/ Reset

Spec == Init /\ [][Next]_vars

----------------------------------------------------------------------------
(* LoopSpec: main() of the example.  events.run calls the handler for one  *)
(* event at a time.  An iteration of the loop delivers the window events,  *)
(* then MainEventsCleared, then the RedrawRequested of the one window; it  *)
(* ends the loop after an iteration in which the handler set               *)
(* ControlFlow::Exit (the rest of that iteration is still delivered), and  *)
(* a panic in the handler ends the process.                                *)

LoopInit == Constructed /\ rects = <<>>

\* painter.set_uniforms(&rc, &PainterSettings { .. }), then events.run.
MainPrologue ==
    /\ ~started
    /\ started' = TRUE
    /\ Becomes(set_uniforms(Cur, MainSettings))
    /\ call' = Called("set_uniforms", "()", 0, 0)
    /\ hist' = [hist EXCEPT !.has_set = TRUE, !.last_set = MainSettings]
    /\ UNCHANGED <<phase, finished, clock, enc_vars>>

Running == started /\ ~panicked /\ ~finished

\* clock.elapsed() grows between events.
Tick ==
    /\ Running
    /\ clock < MaxClock
    /\ clock' = clock + 1
    /\ UNCHANGED <<config, surface, vertex_count, index_count, vertices,
                   indexes, uniforms, device_error, call, trace, pass,
                   control_flow, panicked, redraw_requested, run_vars,
                   enc_vars, hist>>

Resized ==
    /\ Running
    /\ phase = "events"
    /\ \E w \in Dims, h \in Dims, ev \in {"Resized", "ScaleFactorChanged"} :
          /\ Becomes(on_resized(Cur, w, h))
          /\ call' = Called(ev, "", w, h)
          /\ hist' = [hist EXCEPT
                        !.exp_config = IF w # 0 /\ h # 0
                                       THEN [width |-> w, height |-> h] ELSE @]
    /\ UNCHANGED <<started, phase, finished, clock, enc_vars>>

CloseRequested ==
    /\ Running
    /\ phase = "events"
    /\ Becomes(on_close(Cur))
    /\ call' = Called("CloseRequested", "", 0, 0)
    /\ hist' = [hist EXCEPT !.closed = TRUE]
    /\ UNCHANGED <<started, phase, finished, clock, enc_vars>>

MainEventsCleared ==
    /\ Running
    /\ phase = "events"
    /\ Becomes(on_main_events_cleared(Cur))
    /\ call' = Called("MainEventsCleared", "", 0, 0)
    /\ phase' = "redraw"
    /\ UNCHANGED <<hist, started, finished, clock, enc_vars>>

RedrawRequested ==
    /\ Running
    /\ phase = "redraw"
    /\ redraw_requested
    /\ \E outcome \in AcquireOutcomes :
          /\ Becomes(on_redraw([Cur EXCEPT !.redraw_requested = FALSE],
                               outcome, clock))
          /\ call' = Called("RedrawRequested", outcome, clock, 0)
          /\ hist' = IF AcquireArm(outcome) = "frame"
                     THEN [hist EXCEPT
                             !.up_nv = 3 * steps, !.up_ni = 3 * steps,
                             !.good_nv = IF device_error' THEN @ ELSE 3 * steps,
                             !.good_ni = IF device_error' THEN @ ELSE 3 * steps]
                     ELSE hist
    /\ phase' = "events"
    /\ finished' = (control_flow' = "Exit")
    /\ UNCHANGED <<started, clock, enc_vars>>

LoopNext ==
    \/ MainPrologue
    \/ Tick
    \/ Resized
    \/ CloseRequested
    \/ MainEventsCleared
    \/ RedrawRequested

LoopSpec == LoopInit /\ [][LoopNext]_vars

----------------------------------------------------------------------------
(* EncSpec: encode_geometry applied to every list of at most MaxRects      *)
(* rectangles drawn from RectInputs.                                       *)

Rect(center, size, th) ==
    [center |-> center, size |-> size, orientation_radians |-> th]

RectInputs ==
    {Rect(c, sz, th) :
        c \in {<<F(0), F(0)>>, <<F(1), F(-2)>>},
        sz \in {<<F(2), F(2)>>, <<F(2), F(4)>>, <<F(6), F(2)>>, <<F(1), F(1)>>},
        th \in Angles}

RectLists == UNION {[1..n -> RectInputs] : n \in 0..MaxRects}

EncInit == Constructed /\ rects \in RectLists

EncodeCall ==
    /\ pc = "input"
    /\ out' = encode_geometry(rects)
    /\ pc' = "encoded"
    /\ UNCHANGED <<rects, config, surface, vertex_count, index_count, vertices,
                   indexes, uniforms, device_error, call, trace, pass,
                   control_flow, panicked, redraw_requested, run_vars, clock,
                   hist>>

EncNext == EncodeCall

EncSpec == EncInit /\ [][EncNext]_vars

----------------------------------------------------------------------------
(* Claims about the Context and the Painter, under Spec.                   *)

Range(s) == {s[i] : i \in DOMAIN s}

Oversize(nv, ni) == ~(Fits(VertexBytes * nv) /\ Fits(IndexBytes * ni))

\* C1: set_geometry with a vertex or index stream larger than its buffer
\* reports a Capacity error and leaves vertex_count and index_count at the
\* values of the last upload that fitted, so that a later draw slices the
\* buffers by those values.
C1_OversizeReportsCapacity ==
    /\ (call.op = "set_geometry" /\ Oversize(call.a, call.b)) =>
          /\ call.res = "Err(Capacity)"
          /\ vertex_count = hist.good_nv
          /\ index_count = hist.good_ni
    /\ call.op = "draw" =>
          /\ pass.vslice = VertexBytes * hist.good_nv
          /\ pass.islice = IndexBytes * hist.good_ni

\* C2: every draw slices the vertex buffer to vertex_count vertices and the
\* index buffer to index_count indices and issues one indexed draw over
\* 0..index_count, the counts being the lengths given to the most recent
\* set_geometry (0 when there was none); the draw returns Ok; no other call
\* changes the counts.
C2_DrawUsesLastUploadCounts ==
    /\ vertex_count = hist.up_nv
    /\ index_count = hist.up_ni
    /\ call.op = "draw" =>
          /\ pass.vslice = VertexBytes * hist.up_nv
          /\ pass.islice = IndexBytes * hist.up_ni
          /\ pass.first = 0
          /\ pass.last = hist.up_ni
          /\ call.res = "Ok(())"
          /\ Cardinality({i \in DOMAIN trace : trace[i] = "draw_indexed"}) = 1

C2_Witness ==
    /\ call.op = "draw"
    /\ hist.up_nv = 300
    /\ hist.up_ni = 1500
    /\ pass.last = 1500
    /\ hist.has_set

\* C3: every draw reads the settings given to the most recent set_uniforms,
\* whole, and a draw before any set_uniforms reads PainterSettings::default().
C3_DrawReadsLastOrDefaultSettings ==
    call.op = "draw" =>
        pass.settings = IF hist.has_set THEN hist.last_set ELSE DefaultSettings

\* C9: resize with a zero width or height changes nothing and does not
\* configure the surface; with both nonzero it stores the dimensions and
\* configures the surface; so the stored configuration is that of the most
\* recent resize with both nonzero (or the initial one), and reset configures
\* the surface with it and leaves it unchanged.
C9_ConfigIsLastEffectiveResize ==
    /\ config = hist.exp_config
    /\ (call.op = "resize" /\ (call.a = 0 \/ call.b = 0)) =>
          "configure" \notin Range(trace)
    /\ (call.op = "resize" /\ call.a # 0 /\ call.b # 0) =>
          /\ config = [width |-> call.a, height |-> call.b]
          /\ surface = config
          /\ trace = <<"resize", "configure">>
    /\ call.op = "reset" =>
          /\ surface = hist.exp_config
          /\ trace = <<"reset", "configure">>

C9_Witness ==
    /\ call.op = "resize"
    /\ call.a = 0
    /\ call.b = WindowSize
    /\ config = [width |-> 1, height |-> WindowSize]
    /\ surface = config

----------------------------------------------------------------------------
(* Claims about the render loop, under LoopSpec.                           *)

FrameWork == {"set_geometry", "Painter::draw", "present"}

Redrawn(outcomes) == call.op = "RedrawRequested" /\ call.res \in outcomes

\* C4: OutOfMemory makes the loop exit and nothing is handled afterwards;
\* Lost calls reset, skips upload, draw and present, and (unless the window
\* was closed) leaves the loop running, so that the next iteration redraws;
\* any other acquire error stops the loop; only a successful acquire is
\* followed by an upload, a draw and a present.
C4_AcquireOutcomesHandled ==
    /\ Redrawn({"OutOfMemory"}) =>
          /\ control_flow = "Exit"
          /\ finished
          /\ Range(trace) \cap FrameWork = {}
          /\ ~ENABLED LoopNext
    /\ Redrawn({"Lost"}) =>
          /\ trace = <<"get_next_frame", "reset", "configure">>
          /\ surface = config
          /\ ~panicked
          /\ ~hist.closed => (control_flow = "Poll" /\ ENABLED MainEventsCleared)
    /\ Redrawn(AcquireOutcomes \ {"Ok", "Lost", "OutOfMemory"}) =>
          /\ panicked
          /\ Range(trace) \cap FrameWork = {}
          /\ ~ENABLED LoopNext
    /\ Redrawn({"Ok"}) =>
          /\ {"Painter::draw", "present"} \subseteq Range(trace)
          /\ ~panicked
    /\ Range(trace) \cap FrameWork # {} => Redrawn({"Ok"})
    /\ control_flow = "Exit" => Redrawn({"OutOfMemory"}) \/ hist.closed
    /\ finished => control_flow = "Exit"
    /\ panicked => Redrawn(AcquireOutcomes \ {"Ok", "Lost", "OutOfMemory"})

C4_Witness ==
    /\ Redrawn({"Lost"})
    /\ ~hist.closed
    /\ pass.last = 3 * steps
    /\ hist.exp_config = [width |-> 1, height |-> WindowSize]

\* Where op occurs in the trace.
At(op) == {i \in DOMAIN trace : trace[i] = op}

\* C10: a frame is acquire, generate, encode, upload, draw, present, in that
\* order and with nothing between; every draw directly follows an upload of
\* the geometry generated in the same frame and consumes it; present follows
\* the frame's draw; a handler that configures the surface (resize, reset)
\* does no upload, draw or present.
C10_FrameIsSequential ==
    /\ Redrawn({"Ok"}) =>
          /\ trace = <<"get_next_frame", "create_view", "make_rects",
                       "encode_geometry", "set_geometry",
                       "write_buffer(vertices)", "write_buffer(indexes)",
                       "Painter::draw", "begin_render_pass", "set_pipeline",
                       "set_bind_group", "set_vertex_buffer",
                       "set_index_buffer", "draw_indexed", "submit", "present">>
          /\ pass.vgen = call.a
          /\ pass.igen = call.a
          /\ pass.last = 3 * steps
          /\ pass.vslice = VertexBytes * 3 * steps
    /\ \A i \in At("Painter::draw") :
          /\ i > 4
          /\ SubSeq(trace, i - 4, i - 1) =
                <<"encode_geometry", "set_geometry", "write_buffer(vertices)",
                  "write_buffer(indexes)">>
    /\ \A i \in At("present") : \E j \in At("submit") : j < i
    /\ Cardinality(At("Painter::draw")) <= 1
    /\ "configure" \in Range(trace) => Range(trace) \cap FrameWork = {}

C10_Witness ==
    /\ Redrawn({"Ok"})
    /\ call.a = 2
    /\ pass.vgen = 2
    /\ hist.exp_config = [width |-> WindowSize, height |-> 1]

----------------------------------------------------------------------------
(* Claims about encode_geometry, under EncSpec.                            *)

\* The three vertices encoded for rects[k].
Triangle(k) == SubSeq(out.verts, 3 * k - 2, 3 * k)

Encoded == {k \in 1..Len(rects) : pc = "encoded"}

\* Half-extents of a rectangle: half of its size.
HalfW(r) == RMul(Half, r.size[1])
HalfH(r) == RMul(Half, r.size[2])

\* The point at (lx, ly) in the rectangle's own frame: rotated by its
\* orientation about its center.
InFrame(r, lx, ly) ==
    LET s == sin_cos(r.orientation_radians)[1]
        c == sin_cos(r.orientation_radians)[2]
    IN  <<RAdd(r.center[1], RSub(RMul(lx, c), RMul(ly, s))),
          RAdd(r.center[2], RAdd(RMul(lx, s), RMul(ly, c)))>>

Cross(ax, ay, bx, by) == RSub(RMul(ax, by), RMul(ay, bx))

\* Barycentric weights <<w1, w2, w3>> of point p in the triangle p1 p2 p3.
Weights(p1, p2, p3, p) ==
    LET e1x == RSub(p2[1], p1[1])
        e1y == RSub(p2[2], p1[2])
        e2x == RSub(p3[1], p1[1])
        e2y == RSub(p3[2], p1[2])
        dx  == RSub(p[1], p1[1])
        dy  == RSub(p[2], p1[2])
        det == Cross(e1x, e1y, e2x, e2y)
        w2  == RDiv(Cross(dx, dy, e2x, e2y), det)
        w3  == RDiv(Cross(e1x, e1y, dx, dy), det)
    IN  <<RSub(RSub(One, w2), w3), w2, w3>>

\* The UV the rasteriser interpolates at position p of triangle t.
UVAt(t, p) ==
    LET w == Weights(t[1].xyz, t[2].xyz, t[3].xyz, p)
        mix(i) == RAdd(RMul(w[1], t[1].uv[i]),
                       RAdd(RMul(w[2], t[2].uv[i]), RMul(w[3], t[3].uv[i])))
    IN  <<mix(1), mix(2)>>

\* C5: the interpolated UV is (0,0) at the rectangle's center and reaches
\* 0.5 along each axis of the rectangle at that axis's half-extent.
C5_UVHalfAtHalfExtent ==
    \A k \in Encoded :
        /\ UVAt(Triangle(k), InFrame(rects[k], Zero, Zero)) = <<Zero, Zero>>
        /\ UVAt(Triangle(k), InFrame(rects[k], HalfW(rects[k]), Zero)) = <<Half, Zero>>
        /\ UVAt(Triangle(k), InFrame(rects[k], Zero, HalfH(rects[k]))) = <<Zero, Half>>

\* The corners of the region |u| <= 0.5, |v| <= 0.5.
Corners == {<<u, v>> : u \in {Half, RNeg(Half)}, v \in {Half, RNeg(Half)}}

\* Barycentric weights of the UV point q in the UV triangle of t; the first
\* weight is zero on the oblique edge (from t[2] to t[3]) and negative beyond.
UVWeights(t, q) == Weights(t[1].uv, t[2].uv, t[3].uv, q)

Covers(t, q) == \A i \in 1..3 : RLe(Zero, UVWeights(t, q)[i])

\* Whether q is on the inner side of the oblique edge and at least d from
\* it, in UV units: the distance is w1 * |det| / |t[3].uv - t[2].uv|.
ClearOfOblique(t, q, d) ==
    LET w1 == UVWeights(t, q)[1]
        ex == RSub(t[3].uv[1], t[2].uv[1])
        ey == RSub(t[3].uv[2], t[2].uv[2])
        det == Cross(RSub(t[2].uv[1], t[1].uv[1]), RSub(t[2].uv[2], t[1].uv[2]),
                     RSub(t[3].uv[1], t[1].uv[1]), RSub(t[3].uv[2], t[1].uv[2]))
        len2 == RAdd(RMul(ex, ex), RMul(ey, ey))
    IN  /\ RLt(Zero, w1)
        /\ RLe(RMul(RMul(d, d), len2), RMul(RMul(w1, w1), RMul(det, det)))

\* C6 as stated: the triangle covers the region, and every corner of the
\* region is inside the oblique edge by at least line_width.
C6_ObliqueEdgeClearOfRect ==
    \A k \in Encoded : \A q \in Corners :
        /\ Covers(Triangle(k), q)
        /\ ClearOfOblique(Triangle(k), q, MainSettings.line_width)

\* C6 as amended: the triangle covers the region; the corner (0.5, 0.5) lies
\* on the oblique edge and the other corners strictly inside it.
C6_CoveredWithCornerOnOblique ==
    \A k \in Encoded : \A q \in Corners :
        /\ Covers(Triangle(k), q)
        /\ q = <<Half, Half>> => UVWeights(Triangle(k), q)[1] = Zero
        /\ q # <<Half, Half>> => RLt(Zero, UVWeights(Triangle(k), q)[1])

C6_Witness ==
    /\ pc = "encoded"
    /\ Len(rects) = 1
    /\ rects[1] = Rect(<<F(1), F(-2)>>, <<F(6), F(2)>>, "atan(3/4)")
    /\ out.verts[2].uv = <<Rat(7, 2), RNeg(Half)>>

Centroid(t) ==
    <<RDiv(RAdd(t[1].xyz[1], RAdd(t[2].xyz[1], t[3].xyz[1])), F(3)),
      RDiv(RAdd(t[1].xyz[2], RAdd(t[2].xyz[2], t[3].xyz[2])), F(3))>>

Square(r) == r.orientation_radians = "0" /\ r.size[1] = r.size[2]

\* C7 as stated: for an unrotated rectangle with equal half-extents the
\* centroid of the three vertices is the rectangle's center.
C7_CentroidIsCenter ==
    \A k \in Encoded : Square(rects[k]) => Centroid(Triangle(k)) = rects[k].center

\* C7 as amended: it is the center moved by a sixth of the half-extent along
\* each axis.
C7_CentroidOffsetBySixth ==
    \A k \in Encoded :
        Square(rects[k]) =>
            Centroid(Triangle(k)) =
                <<RAdd(rects[k].center[1], RDiv(HalfW(rects[k]), F(6))),
                  RAdd(rects[k].center[2], RDiv(HalfH(rects[k]), F(6)))>>

C7_Witness ==
    /\ pc = "encoded"
    /\ Len(rects) = 1
    /\ rects[1] = Rect(<<F(0), F(0)>>, <<F(2), F(2)>>, "0")
    /\ Centroid(Triangle(1)) = <<Rat(1, 6), Rat(1, 6)>>

\* C8: n rectangles give 3n vertices and the indices 0 .. 3n-1, so the number
\* of indices is a multiple of 3 and each is below the number of vertices;
\* vertices 3k .. 3k+2 are those of the k-th rectangle encoded alone.
C8_ThreePerRectInOrder ==
    pc = "encoded" =>
        /\ Len(out.verts) = 3 * Len(rects)
        /\ Len(out.idxs) = 3 * Len(rects)
        /\ \A i \in 1..Len(out.idxs) : out.idxs[i] = i - 1
        /\ Len(out.idxs) % 3 = 0
        /\ \A i \in 1..Len(out.idxs) : out.idxs[i] < Len(out.verts)
        /\ \A k \in 1..Len(rects) :
              Triangle(k) = encode_geometry(<<rects[k]>>).verts

C8_Witness ==
    /\ pc = "encoded"
    /\ Len(rects) = 2
    /\ rects[1] # rects[2]
    /\ Len(out.verts) = 6
    /\ out.idxs = <<0, 1, 2, 3, 4, 5>>

====
